---- MODULE Spec2Model ----
(***************************************************************************)
(* A model of txamqp_helpers/amqp.py: AMQPFactory (the supervisor, which   *)
(* owns the durable read_list and the queued_messages) and AMQPProtocol    *)
(* (one Session per transport connection).  Every asynchronous directive   *)
(* of the broker library (start, channel, channel_open, basic_qos,         *)
(* exchange_declare, queue_declare, queue_bind, basic_consume,             *)
(* basic_publish) is a suspension point: the coroutine that issued it is   *)
(* resumed by a later step, with a result or with a failure.               *)
(* A consumer's queue.get() is one more: it is resumed by a delivered item  *)
(* (_read_item, which arms it again) or by the queue being closed.         *)
(***************************************************************************)
EXTENDS Integers, Sequences, FiniteSets, TLC

\* ---------------------------------------------------------------- bounds
\* The calls and deliveries the factory is given (send_message calls, read
\* calls and delivered items together), the Sessions built, and the value the
\* retry counter is capped at.
MaxCalls == 2
MaxSessions == 2
MaxRetries == 1

\* ------------------------------------------------------------ the inputs
\* Python's None, where a name is expected.
None == "<None>"

Str(v) == [tag |-> "str", val |-> v]
Dict(d) == [tag |-> "dict", val |-> d]
NoValue == [tag |-> "none"]

\* What the application passes to AMQPFactory.read: the exchange as a name or
\* as a dict, the queue left out (None), as a name, or as a dict with or
\* without its 'queue' key.
SubInputs ==
    { [exchange |-> Str("a"), queue |-> NoValue, no_ack |-> TRUE],
      [exchange |-> Str("b"), queue |-> Dict([exclusive |-> TRUE]), no_ack |-> FALSE],
      [exchange |-> Dict([exchange |-> "a", durable |-> FALSE]), queue |-> Str("q"),
       no_ack |-> TRUE] }

\* What the application passes to AMQPFactory.send_message.
MsgInputs == { Str("a") }

\* The prefetch counts the factory may be constructed with (None or a count).
PrefetchInputs == {0, 1}

\* ------------------------------------------------------ module constants
exchange_defaults == [type |-> "direct", durable |-> TRUE, auto_delete |-> FALSE]

queue_defaults == [durable |-> TRUE, exclusive |-> FALSE, auto_delete |-> FALSE]

\* dict.update and d[k] = v
dict_update(d, e) ==
    [k \in (DOMAIN d) \cup (DOMAIN e) |-> IF k \in DOMAIN e THEN e[k] ELSE d[k]]

dict_set(d, k, v) == [j \in (DOMAIN d) \cup {k} |-> IF j = k THEN v ELSE d[j]]

\* ----------------------------------------------------------------- state
VARIABLES
    p,                      \* AMQPFactory.p: 0 (None) or the current Session
    sess,                   \* the Sessions built so far, by number
    queued_messages,        \* AMQPFactory.queued_messages (message numbers)
    read_list,              \* AMQPFactory.read_list
    initial_deferred_fired, \* AMQPFactory.initial_deferred_fired
    retries,                \* ReconnectingClientFactory.retries (the backoff)
    prefetch_count,         \* AMQPFactory.prefetch_count
    msgs,                   \* every message given to send_message, by number
    acts,                   \* every setup_read coroutine started, in start order
    published,              \* message numbers in the order basic_publish was called
    client,                 \* AMQPFactory.client: 0 (None) or the last protocol built
    deferred,               \* how often AMQPFactory.deferred has been called back
    items                   \* every _read_item coroutine started, in start order

vars == << p, sess, queued_messages, read_list, initial_deferred_fired, retries,
           prefetch_count, msgs, acts, published, client, deferred, items >>

\* The exchange name a str-or-dict exchange argument stands for.
ExchangeName(exchange) ==
    IF exchange.tag = "dict" THEN exchange.val.exchange ELSE exchange.val

\* exchange_cfg of setup_read and of _send_message.
exchange_cfg_of(exchange) ==
    IF exchange.tag = "dict"
    THEN dict_update(exchange_defaults, exchange.val)
    ELSE dict_set(exchange_defaults, "exchange", exchange.val)

\* The first lines of setup_read: a dict queue without a 'queue' key gets the
\* exchange name (the dict is the one read_list holds, so it is changed there).
default_queue_name(exchange, queue) ==
    IF queue.tag = "dict" /\ "queue" \notin DOMAIN queue.val
    THEN Dict(dict_set(queue.val, "queue", ExchangeName(exchange)))
    ELSE queue

\* queue_cfg of setup_read.
queue_cfg_of(queue) ==
    IF queue.tag = "dict"
    THEN dict_update(queue_defaults, queue.val)
    ELSE dict_set(queue_defaults, "queue",
                  IF queue.tag = "none" THEN None ELSE queue.val)


Range(q) == { q[i] : i \in DOMAIN q }

\* What the application and the broker have given the factory so far:
\* send_message calls, read calls and delivered items.
Calls == Len(msgs) + Len(read_list) + Len(items)

Init ==
    /\ p = 0
    /\ sess = << >>
    /\ queued_messages = << >>
    /\ read_list = << >>
    /\ initial_deferred_fired = FALSE
    /\ retries = 0
    /\ prefetch_count \in PrefetchInputs
    /\ msgs = << >>
    /\ acts = << >>
    /\ published = << >>
    /\ client = 0
    /\ deferred = 0
    /\ items = << >>

\* ------------------------------------------------------- AMQPProtocol
\* A Session is live while the factory's transport is the one it was built
\* for; results of directives arrive only on a live transport.
Live(s) == s # 0 /\ s = p

\* connectionMade with the tag counter kept on the class, shared by every
\* protocol, in place of the instance attribute get_consumer_tag creates.
connectionMade_shared_tag ==
    [pc |-> "start", connected |-> FALSE,
     consumer_tag |-> IF sess = << >> THEN 0 ELSE sess[Len(sess)].consumer_tag]

\* A protocol as buildProtocol leaves it and connectionMade starts it:
\* connected = False, no _consumer_tag yet, start() pending.
connectionMade ==
    [pc |-> "start", connected |-> FALSE, consumer_tag |-> 0]

\* get_consumer_tag: the counter's next value (returned as str(...)).
get_consumer_tag(s) == sess[s].consumer_tag + 1

\* One setup_read call up to its first yield: the queue default, exchange_cfg,
\* and exchange_declare issued.  via names the caller.
setup_read(s, i, rl, via) ==
    [ sess |-> s, sub |-> i, via |-> via, pc |-> "exchange_declare",
      exchange_cfg |-> exchange_cfg_of(rl[i].exchange),
      queue |-> default_queue_name(rl[i].exchange, rl[i].queue),
      queue_cfg |-> queue_defaults,
      consumer_tag |-> None ]

\* read_list after setup_read(*l) ran on entry i: the entry's dict queue is the
\* object setup_read wrote the default name into.
read_list_after(rl, i) ==
    [rl EXCEPT ![i].queue = default_queue_name(rl[i].exchange, rl[i].queue)]

\* AMQPProtocol.send: if connected, pop every queued message and start its
\* _send_message, which runs up to its yield on exchange_declare.
send_msgs(s, q, ms, via) ==
    IF sess[s].connected
    THEN [ i \in DOMAIN ms |->
             IF i \in Range(q)
             THEN [ms[i] EXCEPT !.st = "exchange_declare", !.sess = s, !.via = via]
             ELSE ms[i] ]
    ELSE ms

send_queue(s, q) == IF sess[s].connected THEN << >> ELSE q

\* AMQPProtocol.read with its connected branch left empty as well.
read_acts_deferred(s, i, rl) == << >>

\* AMQPProtocol.read: setup_read if connected, else nothing.
read_acts(s, i, rl) ==
    IF sess[s].connected THEN << setup_read(s, i, rl, "read") >> ELSE << >>

read_rl(s, i, rl) ==
    IF sess[s].connected THEN read_list_after(rl, i) ELSE rl

\* _send_message_err prints and returns None: the failure becomes a result.
_send_message_err(failure) == "success"

\* d.addErrback(self._send_message_err); d.chainDeferred(callback): what the
\* message's completion handle is resolved with, for basic_publish's result r.
chained_result(r) == IF r = "failure" THEN _send_message_err(r) ELSE r

\* ------------------------------------------------------- AMQPFactory
\* buildProtocol without its call of resetDelay.
buildProtocol_no_reset ==
    /\ p = 0
    /\ Len(sess) < MaxSessions
    /\ sess' = Append(sess, connectionMade)
    /\ p' = Len(sess) + 1
    /\ client' = Len(sess) + 1
    /\ UNCHANGED << queued_messages, read_list, initial_deferred_fired, retries,
                    prefetch_count, deferred, items, msgs, acts, published >>

\* buildProtocol, then the transport's makeConnection -> connectionMade.
buildProtocol ==
    /\ p = 0
    /\ Len(sess) < MaxSessions
    /\ sess' = Append(sess, connectionMade)
    /\ p' = Len(sess) + 1
    /\ client' = Len(sess) + 1
    /\ retries' = 0
    /\ UNCHANGED << queued_messages, read_list, initial_deferred_fired,
                    prefetch_count, deferred, items, msgs, acts, published >>

\* ReconnectingClientFactory.retry: one more retry, a longer delay.
retry(n) == n + 1

clientConnectionFailed ==
    /\ p = 0
    /\ retries < MaxRetries
    /\ retries' = retry(retries)
    /\ UNCHANGED << p, sess, queued_messages, read_list, initial_deferred_fired,
                    prefetch_count, client, deferred, items, msgs, acts, published >>

\* What the loss of the transport does to the coroutines of Session s: the
\* library closes the channel, so every directive still awaited fails (Closed),
\* as does an armed queue.get(), and the coroutine ends, its locals with it.
\* No setup_read coroutine of s is left running; one that a failed directive
\* had ended before stays ended by that failure.
closed_acts(s) ==
    [ k \in DOMAIN acts |->
        IF acts[k].sess = s
        THEN [acts[k] EXCEPT
                 !.pc = IF acts[k].pc = "failed" THEN "failed" ELSE "closed",
                 !.consumer_tag = None, !.queue_cfg = queue_defaults]
        ELSE acts[k] ]

\* The same for the _send_message coroutines of s: exchange_declare fails.
closed_msgs(s) ==
    [ m \in DOMAIN msgs |->
        IF msgs[m].sess = s /\ msgs[m].st = "exchange_declare"
        THEN [msgs[m] EXCEPT !.st = "declare_failed"]
        ELSE msgs[m] ]

\* clientConnectionLost without self.p = None.
clientConnectionLost_keeping_p ==
    /\ p # 0
    /\ retries' = retry(retries)
    /\ sess' = [sess EXCEPT ![p].pc = "closed"]
    /\ acts' = closed_acts(p)
    /\ msgs' = closed_msgs(p)
    /\ UNCHANGED << p, queued_messages, read_list, initial_deferred_fired,
                    prefetch_count, client, deferred, items, published >>

\* clientConnectionLost emptying queued_messages as it drops the protocol.
clientConnectionLost_clearing ==
    /\ p # 0
    /\ p' = 0
    /\ retries' = retry(retries)
    /\ sess' = [sess EXCEPT ![p].pc = "closed"]
    /\ acts' = closed_acts(p)
    /\ msgs' = closed_msgs(p)
    /\ queued_messages' = << >>
    /\ UNCHANGED << read_list, initial_deferred_fired,
                    prefetch_count, client, deferred, items, published >>

\* clientConnectionLost: self.p = None, then the base class schedules a retry.
\* The protocol it drops has lost its transport.
clientConnectionLost ==
    /\ p # 0
    /\ p' = 0
    /\ retries' = retry(retries)
    /\ sess' = [sess EXCEPT ![p].pc = "closed"]
    /\ acts' = closed_acts(p)
    /\ msgs' = closed_msgs(p)
    /\ UNCHANGED << queued_messages, read_list, initial_deferred_fired,
                    prefetch_count, client, deferred, items, published >>

\* send_message: append, then p.send() if there is a protocol.
send_message ==
    \E exchange \in MsgInputs :
        /\ Calls < MaxCalls
        /\ LET m == Len(msgs) + 1
               ms == Append(msgs, [exchange |-> exchange, st |-> "queued", sess |-> 0,
                                   handle |-> "pending", via |-> "none"])
               q == Append(queued_messages, m)
           IN  IF p # 0
               THEN /\ msgs' = send_msgs(p, q, ms, "send_message")
                    /\ queued_messages' = send_queue(p, q)
               ELSE /\ msgs' = ms
                    /\ queued_messages' = q
        /\ UNCHANGED << p, sess, read_list, initial_deferred_fired, retries,
                        prefetch_count, client, deferred, items, acts, published >>

\* read: append to read_list, then p.read(...) if there is a protocol.
read ==
    \E l \in SubInputs :
        /\ Calls < MaxCalls
        /\ LET i == Len(read_list) + 1
               rl == Append(read_list, l)
           IN  IF p # 0
               THEN /\ acts' = acts \o read_acts(p, i, rl)
                    /\ read_list' = read_rl(p, i, rl)
               ELSE /\ acts' = acts
                    /\ read_list' = rl
        /\ UNCHANGED << p, sess, queued_messages, initial_deferred_fired, retries,
                        prefetch_count, client, deferred, items, msgs, published >>

\* ---------------------------------------------- the handshake's callbacks
\* start() succeeded: _authenticated asks for channel 1.
_authenticated ==
    /\ Live(p)
    /\ sess[p].pc = "start"
    /\ sess' = [sess EXCEPT ![p].pc = "channel"]
    /\ UNCHANGED << p, queued_messages, read_list, initial_deferred_fired, retries,
                    prefetch_count, client, deferred, items, msgs, acts, published >>

\* start() failed: _authentication_failed prints.
_authentication_failed ==
    \E s \in DOMAIN sess :
        /\ Live(s)
        /\ sess[s].pc = "start"
        /\ sess' = [sess EXCEPT ![s].pc = "authentication_failed"]
        /\ UNCHANGED << p, queued_messages, read_list, initial_deferred_fired, retries,
                        prefetch_count, client, deferred, items, msgs, acts, published >>

\* channel(1) succeeded: _got_channel keeps it and opens it.
_got_channel ==
    /\ Live(p)
    /\ sess[p].pc = "channel"
    /\ sess' = [sess EXCEPT ![p].pc = "channel_open"]
    /\ UNCHANGED << p, queued_messages, read_list, initial_deferred_fired, retries,
                    prefetch_count, client, deferred, items, msgs, acts, published >>

\* channel(1) failed: _got_channel_failed prints.
_got_channel_failed ==
    \E s \in DOMAIN sess :
        /\ Live(s)
        /\ sess[s].pc = "channel"
        /\ sess' = [sess EXCEPT ![s].pc = "got_channel_failed"]
        /\ UNCHANGED << p, queued_messages, read_list, initial_deferred_fired, retries,
                        prefetch_count, client, deferred, items, msgs, acts, published >>

\* channel_open() failed: _channel_open_failed prints.
_channel_open_failed ==
    \E s \in DOMAIN sess :
        /\ Live(s)
        /\ sess[s].pc = "channel_open"
        /\ sess' = [sess EXCEPT ![s].pc = "channel_open_failed"]
        /\ UNCHANGED << p, queued_messages, read_list, initial_deferred_fired, retries,
                        prefetch_count, client, deferred, items, msgs, acts, published >>

\* The end of _channel_open with the test of initial_deferred_fired left out.
fire_initial_deferred_always == deferred + 1

\* The end of _channel_open: factory.deferred is called back unless
\* initial_deferred_fired says it has been.
fire_initial_deferred ==
    IF ~initial_deferred_fired THEN deferred + 1 ELSE deferred

\* The rest of _channel_open, from the loop over factory.read_list on: a
\* setup_read per entry, in list order, then send(), then the factory's
\* 'initial connect' deferred.  The session's connected flag is already set.
channel_open_ready(s) ==
    /\ acts' = acts \o [ i \in 1..Len(read_list) |->
                           setup_read(s, i, read_list, "_channel_open") ]
    /\ read_list' = [ i \in 1..Len(read_list) |->
                        read_list_after(read_list, i)[i] ]
    /\ msgs' = [ i \in DOMAIN msgs |->
                   IF i \in Range(queued_messages)
                   THEN [msgs[i] EXCEPT !.st = "exchange_declare", !.sess = s,
                                        !.via = "_channel_open"]
                   ELSE msgs[i] ]
    /\ queued_messages' = << >>
    /\ deferred' = fire_initial_deferred
    /\ initial_deferred_fired' = TRUE

\* channel_open() succeeded: _channel_open sets connected, then either yields on
\* basic_qos (a prefetch count is set) or goes on at once.
_channel_open ==
    /\ Live(p)
    /\ sess[p].pc = "channel_open"
    /\ IF prefetch_count # 0
       THEN /\ sess' = [sess EXCEPT ![p].pc = "basic_qos", ![p].connected = TRUE]
            /\ UNCHANGED << queued_messages, read_list, initial_deferred_fired,
                            msgs, acts, deferred >>
       ELSE /\ sess' = [sess EXCEPT ![p].pc = "ready", ![p].connected = TRUE]
            /\ channel_open_ready(p)
    /\ UNCHANGED << p, retries, prefetch_count, client, items, published >>

\* basic_qos answered: _channel_open resumes after its yield.
basic_qos_ok ==
    /\ Live(p)
    /\ sess[p].pc = "basic_qos"
    /\ sess' = [sess EXCEPT ![p].pc = "ready"]
    /\ channel_open_ready(p)
    /\ UNCHANGED << p, retries, prefetch_count, client, items, published >>

\* basic_qos failed: the exception ends _channel_open; its Deferred's failure
\* reaches _channel_open_failed, which prints.  connected stays True.
basic_qos_failed ==
    \E s \in DOMAIN sess :
        /\ Live(s)
        /\ sess[s].pc = "basic_qos"
        /\ sess' = [sess EXCEPT ![s].pc = "channel_open_failed"]
        /\ UNCHANGED << p, queued_messages, read_list, initial_deferred_fired, retries,
                        prefetch_count, client, deferred, items, msgs, acts, published >>

\* ------------------------------------------------- setup_read's later steps
\* The directive a setup_read coroutine issues after the one it waits on.
next_directive(pc) ==
    CASE pc = "exchange_declare" -> "queue_declare"
      [] pc = "queue_declare" -> "queue_bind"
      [] pc = "queue_bind" -> "basic_consume"
      [] pc = "basic_consume" -> "queue_get"

Directives == { "exchange_declare", "queue_declare", "queue_bind", "basic_consume" }

\* The directive coroutine k waits on has answered: setup_read resumes up to its
\* next yield.  After exchange_declare it takes a consumer tag and computes
\* queue_cfg; after basic_consume it arms queue.get() for the first delivery.
setup_read_resume ==
    \E k \in DOMAIN acts :
        /\ Live(acts[k].sess)
        /\ acts[k].pc \in Directives
        /\ IF acts[k].pc = "exchange_declare"
           THEN /\ acts' = [acts EXCEPT
                       ![k].pc = next_directive(acts[k].pc),
                       ![k].consumer_tag = ToString(get_consumer_tag(acts[k].sess)),
                       ![k].queue_cfg = queue_cfg_of(acts[k].queue)]
                /\ sess' = [sess EXCEPT ![acts[k].sess].consumer_tag =
                                            get_consumer_tag(acts[k].sess)]
           ELSE /\ acts' = [acts EXCEPT ![k].pc = next_directive(acts[k].pc)]
                /\ sess' = sess
        /\ UNCHANGED << p, queued_messages, read_list, initial_deferred_fired, retries,
                        prefetch_count, client, deferred, items, msgs, published >>

\* A failed directive ending every setup_read coroutine of the Session, not
\* only the one that waited on it.
setup_read_failed_all ==
    \E k \in DOMAIN acts :
        /\ Live(acts[k].sess)
        /\ acts[k].pc \in Directives
        /\ acts' = [ j \in DOMAIN acts |->
                       IF acts[j].sess = acts[k].sess /\ acts[j].pc \in Directives
                       THEN [acts[j] EXCEPT !.pc = "failed"]
                       ELSE acts[j] ]
        /\ UNCHANGED << p, sess, queued_messages, read_list, initial_deferred_fired,
                        retries, prefetch_count, client, deferred, items, msgs, published >>

\* The directive coroutine k waits on failed: the exception ends setup_read.
setup_read_failed ==
    \E k \in DOMAIN acts :
        /\ Live(acts[k].sess)
        /\ acts[k].pc \in Directives
        /\ acts' = [acts EXCEPT ![k].pc = "failed"]
        /\ UNCHANGED << p, sess, queued_messages, read_list, initial_deferred_fired,
                        retries, prefetch_count, client, deferred, items, msgs, published >>

\* -------------------------------------------- _send_message's later steps
\* exchange_declare answered: _send_message calls basic_publish, whose result r
\* goes through _send_message_err and then to the message's Deferred.
_send_message_publish ==
    \E m \in DOMAIN msgs, r \in { "success", "failure" } :
        /\ Live(msgs[m].sess)
        /\ msgs[m].st = "exchange_declare"
        /\ published' = Append(published, m)
        /\ msgs' = [msgs EXCEPT
               ![m].st = IF r = "failure" THEN "publish_failed" ELSE "published",
               ![m].handle = chained_result(r)]
        /\ UNCHANGED << p, sess, queued_messages, read_list, initial_deferred_fired,
                        retries, prefetch_count, client, deferred, items, acts >>

\* exchange_declare failed: the exception ends _send_message before it touches
\* the message's Deferred.
_send_message_declare_failed ==
    \E m \in DOMAIN msgs :
        /\ Live(msgs[m].sess)
        /\ msgs[m].st = "exchange_declare"
        /\ msgs' = [msgs EXCEPT ![m].st = "declare_failed"]
        /\ UNCHANGED << p, sess, queued_messages, read_list, initial_deferred_fired,
                        retries, prefetch_count, client, deferred, items, acts, published >>

\* ------------------------------------------------------ the delivery loop
\* _read_item's first statement: d = queue.get() with the same callbacks, so
\* the coroutine's consumer waits for the next item again.
queue_get_again == "queue_get"

\* The end of _read_item calling basic_ack whatever no_ack says.
basic_ack_always(no_ack, r) == r

\* The end of _read_item once callback(item) has succeeded: basic_ack, with
\* result r, unless no_ack.
basic_ack(no_ack, r) == IF no_ack THEN "none" ELSE r

\* queue.get() of coroutine k delivers an item: _read_item arms the next
\* queue.get(), then calls callback(item) and yields on its result.
_read_item ==
    \E k \in DOMAIN acts :
        /\ Live(acts[k].sess)
        /\ acts[k].pc = "queue_get"
        /\ Calls < MaxCalls
        /\ acts' = [acts EXCEPT ![k].pc = queue_get_again]
        /\ items' = Append(items, [act |-> k, callback |-> "running", ack |-> "none"])
        /\ UNCHANGED << p, sess, queued_messages, read_list, initial_deferred_fired,
                        retries, prefetch_count, client, deferred, msgs, published >>

\* callback(item) succeeded: _read_item resumes and, unless no_ack, calls
\* basic_ack, which is sent at once on an open channel and raises on a closed
\* one (the channel of a dropped Session is closed).
_read_item_callback_done ==
    \E j \in DOMAIN items, r \in { "sent", "failed" } :
        /\ items[j].callback = "running"
        /\ r = "sent" => Live(acts[items[j].act].sess)
        /\ items' = [items EXCEPT
               ![j].callback = "done",
               ![j].ack = basic_ack(read_list[acts[items[j].act].sub].no_ack, r)]
        /\ UNCHANGED << p, sess, queued_messages, read_list, initial_deferred_fired,
                        retries, prefetch_count, client, deferred, msgs, acts, published >>

\* callback(item) failed: the exception ends _read_item before basic_ack; the
\* failure passes _read_queue_closed's trap and _read_item_err prints it.
_read_item_err ==
    \E j \in DOMAIN items :
        /\ items[j].callback = "running"
        /\ items' = [items EXCEPT ![j].callback = "failed"]
        /\ UNCHANGED << p, sess, queued_messages, read_list, initial_deferred_fired,
                        retries, prefetch_count, client, deferred, msgs, acts, published >>

\* queue.get() of coroutine k fails with txamqp.queue.Closed: _read_item is
\* skipped, _read_queue_closed traps the failure and prints; nothing is armed.
_read_queue_closed ==
    \E k \in DOMAIN acts :
        /\ Live(acts[k].sess)
        /\ acts[k].pc = "queue_get"
        /\ acts' = [acts EXCEPT ![k].pc = "queue_closed"]
        /\ UNCHANGED << p, sess, queued_messages, read_list, initial_deferred_fired,
                        retries, prefetch_count, client, deferred, items, msgs, published >>

\* ------------------------------------------------------- specification
Next ==
    \/ buildProtocol
    \/ clientConnectionFailed
    \/ clientConnectionLost
    \/ send_message
    \/ read
    \/ _authenticated
    \/ _authentication_failed
    \/ _got_channel
    \/ _got_channel_failed
    \/ _channel_open
    \/ _channel_open_failed
    \/ basic_qos_ok
    \/ basic_qos_failed
    \/ setup_read_resume
    \/ setup_read_failed
    \/ _send_message_publish
    \/ _send_message_declare_failed
    \/ _read_item
    \/ _read_item_callback_done
    \/ _read_item_err
    \/ _read_queue_closed

Spec == Init /\ [][Next]_vars

\* ------------------------------------------------------------- claims
\* The setup_read coroutines started on Session s for read_list entry i.
ActsOf(s, i) == { k \in DOMAIN acts : acts[k].sess = s /\ acts[k].sub = i }

\* Session s has gone through the whole of _channel_open.
Ready(s) == s # 0 /\ sess[s].pc = "ready"

\* basic_publish has been called for message m.
Submitted(m) == msgs[m].st \in { "published", "publish_failed" }

\* C1: basic_publish is called for the messages in their enqueue order
\* (message numbers are given in enqueue order), whatever the order in which
\* their exchange_declare directives are answered.
C1_PublishInEnqueueOrder ==
    \A i, j \in DOMAIN published : i < j => published[i] < published[j]

\* C2: on a Session that has reached Ready, every entry of read_list has been
\* activated exactly once, whenever read was called relative to the handshake.
C2_EachSubscriptionOnce ==
    Ready(p) => \A i \in DOMAIN read_list : Cardinality(ActsOf(p, i)) = 1

\* C3: a message whose basic_publish failed has its completion handle resolved
\* with a failure; its Session stays Ready and the message is not re-queued.
C3_PublishFailureFailsHandle ==
    \A m \in DOMAIN msgs :
        msgs[m].st = "publish_failed" =>
            /\ msgs[m].handle = "failure"
            /\ m \notin Range(queued_messages)

\* C4: a message whose exchange_declare failed on a Session that is still the
\* current one has its completion handle resolved with a failure.
C4_DeclareFailureFailsHandle ==
    \A m \in DOMAIN msgs :
        (msgs[m].st = "declare_failed" /\ Live(msgs[m].sess)) =>
            msgs[m].handle = "failure"

\* C5: once the transport has dropped, every message accepted by send_message
\* and not yet given to basic_publish is in queued_messages, for the next
\* Session to publish.
C5_UnpublishedStayQueued ==
    p = 0 =>
        \A m \in DOMAIN msgs : ~Submitted(m) => m \in Range(queued_messages)

\* C6: for a read call that gave no queue, the queue setup_read declares, binds
\* and consumes from carries the exchange's name and durable=True,
\* exclusive=False, auto_delete=False, and the exchange is declared direct,
\* durable, not auto_delete.
C6_DefaultQueueIsExchangeName ==
    \A k \in DOMAIN acts :
        ( /\ read_list[acts[k].sub].queue.tag = "none"
          /\ acts[k].pc \in { "queue_declare", "queue_bind", "basic_consume",
                              "queue_get" } ) =>
            /\ acts[k].queue_cfg.queue = ExchangeName(read_list[acts[k].sub].exchange)
            /\ acts[k].queue_cfg.durable = TRUE
            /\ acts[k].queue_cfg.exclusive = FALSE
            /\ acts[k].queue_cfg.auto_delete = FALSE
            /\ acts[k].exchange_cfg.type = "direct"
            /\ acts[k].exchange_cfg.durable = TRUE
            /\ acts[k].exchange_cfg.auto_delete = FALSE

\* C7: when basic_publish has been called for a message that was queued at the
\* Session's Ready transition, every subscription re-applied at that transition
\* (and not failed) has had its exchange_declare, queue_declare, queue_bind and
\* basic_consume issued.
C7_SubscriptionsBeforePublish ==
    \A m \in DOMAIN msgs :
        (Submitted(m) /\ msgs[m].via = "_channel_open" /\ Live(msgs[m].sess)) =>
            \A k \in DOMAIN acts :
                ( /\ acts[k].sess = msgs[m].sess
                  /\ acts[k].via = "_channel_open"
                  /\ acts[k].pc # "failed" ) =>
                    acts[k].pc \in { "basic_consume", "queue_get" }

\* The step in which the current Session becomes Ready.
BecomesReady == Ready(p)' /\ ~Ready(p)

\* The consumer tags the setup_read coroutines of Session s have taken.
TagsOf(s) ==
    { acts[k].consumer_tag : k \in { j \in DOMAIN acts : acts[j].sess = s
                                                      /\ acts[j].consumer_tag # None } }

\* C8: every Session that becomes Ready starts one setup_read per read_list
\* entry, in list order; the consumer tags of each Session are "1".."n", so they
\* start again at "1" on a new Session; and no step shortens or reorders
\* read_list (an entry changes at most by its dict queue getting its default
\* name).
C8_ReplayOnEverySession ==
    [][ /\ BecomesReady =>
            /\ Len(acts') = Len(acts) + Len(read_list)
            /\ \A i \in DOMAIN read_list :
                   /\ acts'[Len(acts) + i].sess = p'
                   /\ acts'[Len(acts) + i].sub = i
                   /\ acts'[Len(acts) + i].pc = "exchange_declare"
        /\ (p' # 0) => (TagsOf(p))' = { ToString(n) : n \in 1..sess'[p'].consumer_tag }
        /\ (p = 0 /\ p' # 0) => sess'[p'].consumer_tag = 0
        /\ Len(read_list') >= Len(read_list)
        /\ \A i \in DOMAIN read_list :
               /\ read_list'[i].exchange = read_list[i].exchange
               /\ read_list'[i].no_ack = read_list[i].no_ack
               /\ read_list'[i].queue.tag = read_list[i].queue.tag
      ]_vars

\* A second Session is Ready, has re-applied both entries of read_list and has
\* given out its tag "1", after the first Session had given out tags of its own.
C8_Witness ==
    /\ p = 2
    /\ Ready(2)
    /\ Len(read_list) = 2
    /\ sess[1].consumer_tag >= 1
    /\ "1" \in TagsOf(2)
    /\ \A i \in DOMAIN read_list : ActsOf(2, i) # {}

\* C9: a read call made while the current Session is Ready starts that
\* subscription's setup_read on it within the call (exchange_declare issued);
\* every read_list entry, whenever registered, gets a setup_read the moment a
\* Session becomes Ready.
C9_LiveActivation ==
    [][ /\ (Ready(p) /\ Len(read_list') = Len(read_list) + 1) =>
            /\ Len(acts') = Len(acts) + 1
            /\ acts'[Len(acts')].sess = p
            /\ acts'[Len(acts')].sub = Len(read_list')
            /\ acts'[Len(acts')].pc = "exchange_declare"
        /\ BecomesReady =>
            \A i \in DOMAIN read_list :
                \E k \in (DOMAIN acts') \ (DOMAIN acts) :
                    /\ acts'[k].sess = p'
                    /\ acts'[k].sub = i
                    /\ acts'[k].pc \in Directives
      ]_vars

\* A subscription registered on a Ready Session runs there without any replay
\* of it, next to one registered before the Session was Ready.
C9_Witness ==
    /\ Ready(p)
    /\ \E k \in DOMAIN acts :
           /\ acts[k].sess = p
           /\ acts[k].via = "read"
           /\ \A j \in ActsOf(p, acts[k].sub) : j = k
    /\ \E k \in DOMAIN acts : acts[k].sess = p /\ acts[k].via = "_channel_open"

\* C10: a Session whose handshake failed (start, channel or channel_open) is not
\* the factory's current protocol.
C10_FailedSessionDropped ==
    p # 0 => sess[p].pc \notin { "authentication_failed", "got_channel_failed",
                                 "channel_open_failed" }

\* C11: factory.deferred is called back exactly once, by the step that makes
\* a Session Ready for the first time: it has not been called at the start, no
\* step other than a Session becoming Ready calls it, the first such step
\* does, and it is never called a second time.
C11_InitialDeferredOnce ==
    /\ deferred = 0
    /\ [][ /\ deferred' <= 1
           /\ (BecomesReady /\ deferred = 0) => deferred' = 1
           /\ deferred' # deferred => BecomesReady
         ]_vars

\* A second Session is Ready and factory.deferred has been called once.
C11_Witness ==
    /\ p = 2
    /\ Ready(2)
    /\ initial_deferred_fired
    /\ deferred = 1

\* The transport of the current Session is lost in this step.
Disconnects == p # 0 /\ sess'[p].pc = "closed"

\* C12: the step that loses the current Session's transport sets the
\* factory's protocol reference to None and changes neither read_list nor
\* queued_messages.
C12_DisconnectKeepsLists ==
    [][ Disconnects =>
            /\ p' = 0
            /\ read_list' = read_list
            /\ queued_messages' = queued_messages
      ]_vars

\* The last Session has been dropped and both read_list and queued_messages
\* still hold an entry.
C12_Witness ==
    /\ p = 0
    /\ sess # << >>
    /\ sess[Len(sess)].pc = "closed"
    /\ read_list # << >>
    /\ queued_messages # << >>

\* C13: while the current Session waits for the answer to basic_qos, no
\* setup_read coroutine has been started on it.
C13_NoActivationWhileQosPending ==
    \A k \in DOMAIN acts :
        Live(acts[k].sess) => sess[acts[k].sess].pc # "basic_qos"

\* C14: the step in which a directive of one setup_read coroutine fails ends
\* that coroutine only: every other coroutine is as it was and none is added,
\* the Session and the factory's reference to it are unchanged, and read_list
\* is unchanged; and the step that makes a Session Ready starts a setup_read
\* for every read_list entry that has a failed one behind it.
C14_FailureAbortsOnlyOne ==
    [][ /\ \A k \in DOMAIN acts :
               (acts[k].pc \in Directives /\ acts'[k].pc = "failed") =>
                   /\ DOMAIN acts' = DOMAIN acts
                   /\ \A j \in DOMAIN acts : j # k => acts'[j] = acts[j]
                   /\ sess' = sess
                   /\ p' = p
                   /\ read_list' = read_list
        /\ BecomesReady =>
               \A k \in DOMAIN acts :
                   acts[k].pc = "failed" =>
                       \E j \in (DOMAIN acts') \ (DOMAIN acts) :
                           /\ acts'[j].sess = p'
                           /\ acts'[j].sub = acts[k].sub
                           /\ acts'[j].pc = "exchange_declare"
      ]_vars

\* A subscription whose setup_read failed on the first Session consumes on
\* the second, which is Ready, next to the other subscription of read_list.
C14_Witness ==
    /\ p = 2
    /\ Ready(2)
    /\ Len(read_list) = 2
    /\ \E k \in DOMAIN acts :
           /\ acts[k].sess = 1
           /\ acts[k].pc = "failed"
           /\ \E j \in ActsOf(2, acts[k].sub) : acts[j].pc = "queue_get"
    /\ \A i \in DOMAIN read_list : \E j \in ActsOf(2, i) : acts[j].pc = "queue_get"

\* The no_ack argument of the subscription item j was delivered for.
NoAckOf(j) == read_list[acts[items[j].act].sub].no_ack

\* C15: the step that delivers an item leaves its consumer waiting on
\* queue.get() again while callback(item) has only been started and nothing
\* is acknowledged; basic_ack is called for an item only in the step in which
\* its callback completes successfully, and then exactly when the
\* subscription is not no_ack; an item whose callback failed is never
\* acknowledged.
C15_RearmThenHandleThenAck ==
    [][ /\ Len(items') > Len(items) =>
               /\ acts'[items'[Len(items')].act].pc = "queue_get"
               /\ items'[Len(items')].callback = "running"
               /\ items'[Len(items')].ack = "none"
        /\ \A j \in DOMAIN items :
               /\ items'[j].ack # items[j].ack =>
                      /\ items[j].callback = "running"
                      /\ items'[j].callback = "done"
               /\ (items[j].callback = "running" /\ items'[j].callback = "done") =>
                      (items'[j].ack # "none" <=> ~NoAckOf(j))
               /\ items'[j].callback = "failed" => items'[j].ack = "none"
      ]_vars

\* An item of a subscription that is not no_ack has been handled and
\* acknowledged, and its consumer waits for the next item.
C15_Witness ==
    \E j \in DOMAIN items :
        /\ ~NoAckOf(j)
        /\ items[j].callback = "done"
        /\ items[j].ack = "sent"
        /\ acts[items[j].act].pc = "queue_get"

\* C16: once queue.get() of a setup_read coroutine has failed with Closed,
\* that coroutine arms no further queue.get(), no further item is handled for
\* its subscription on its Session, and no further setup_read is started for
\* its subscription on its Session; the step in which it fails, like the step
\* in which a callback fails, changes neither the Session nor any other
\* coroutine.
C16_ClosedLoopEnds ==
    [][ /\ \A k \in DOMAIN acts :
               acts[k].pc = "queue_closed" =>
                   /\ acts'[k].pc \in { "queue_closed", "closed" }
                   /\ \A j \in (DOMAIN items') \ (DOMAIN items) :
                          ~ /\ acts'[items'[j].act].sess = acts[k].sess
                            /\ acts'[items'[j].act].sub = acts[k].sub
                   /\ \A j \in (DOMAIN acts') \ (DOMAIN acts) :
                          ~ /\ acts'[j].sess = acts[k].sess
                            /\ acts'[j].sub = acts[k].sub
        /\ \A k \in DOMAIN acts :
               (acts[k].pc = "queue_get" /\ acts'[k].pc = "queue_closed") =>
                   /\ sess' = sess
                   /\ p' = p
                   /\ DOMAIN acts' = DOMAIN acts
                   /\ \A j \in DOMAIN acts : j # k => acts'[j] = acts[j]
        /\ \A j \in DOMAIN items :
               (items[j].callback = "running" /\ items'[j].callback = "failed") =>
                   /\ sess' = sess
                   /\ p' = p
                   /\ acts' = acts
      ]_vars

\* Every read_list entry has setup_read coroutines on Session s, and each of
\* them got through basic_consume and waits for items.
AllActivated(s) ==
    /\ read_list # << >>
    /\ \A i \in DOMAIN read_list :
           /\ ActsOf(s, i) # {}
           /\ \A k \in ActsOf(s, i) : acts[k].pc = "queue_get"

\* C17: on one Session no two setup_read coroutines hold the same consumer
\* tag; the tags given out are "1", "2", ... without a gap, in the order
\* they were taken; and on the current Session, once all k entries of
\* read_list are activated, the tags in use are exactly "1".."k".
C17_TagsOneToK ==
    [][ /\ \A s \in DOMAIN sess :
               /\ \A j, k \in DOMAIN acts :
                      ( /\ j # k
                        /\ acts[j].sess = s
                        /\ acts[k].sess = s
                        /\ acts[j].consumer_tag # None ) =>
                          acts[j].consumer_tag # acts[k].consumer_tag
               /\ TagsOf(s) = { ToString(n) : n \in 1..Cardinality(TagsOf(s)) }
        /\ \A k \in DOMAIN acts :
               (acts[k].consumer_tag = None /\ acts'[k].consumer_tag # None) =>
                   acts'[k].consumer_tag = ToString(Cardinality(TagsOf(acts[k].sess)) + 1)
        /\ (p # 0 /\ AllActivated(p)) =>
               TagsOf(p) = { ToString(n) : n \in 1..Len(read_list) }
      ]_vars

\* C18 as stated: the retry counter is back at its minimum after every step
\* into Ready, every other change of it is an increment by one, and no step
\* but a step into Ready lowers it.
C18_ResetOnlyOnReady ==
    [][ /\ BecomesReady => retries' = 0
        /\ (retries' # retries /\ ~BecomesReady) => retries' = retries + 1
      ]_vars

\* C18, amended: the retry counter is reset by the step that builds a
\* protocol for a connected transport, before any handshake, so it is at its
\* minimum while the factory has a protocol and when a Session becomes Ready;
\* every other change of it is an increment by one, made while the factory
\* has no protocol or as it loses the one it has.
C18_ResetOnConnect ==
    [][ /\ (p = 0 /\ p' # 0) => retries' = 0
        /\ p' # 0 => retries' = 0
        /\ BecomesReady => retries' = 0
        /\ Disconnects => retries' = retries + 1
        /\ retries' # retries =>
               \/ retries' = 0 /\ p = 0 /\ p' # 0
               \/ retries' = retries + 1 /\ p' = 0
      ]_vars

\* A second protocol has just been built, after the loss of the first had
\* raised the retry counter: its handshake has not begun and the counter is
\* at its minimum.
C18_Witness ==
    /\ p = 2
    /\ sess[1].pc = "closed"
    /\ sess[2].pc = "start"
    /\ retries = 0

\* C19: the factory's protocol references (p and client) name at most one
\* Session, and p never names one whose transport is lost; and no step makes a
\* Session whose transport is lost do anything: its state and its setup_read
\* coroutines stay as they are, no setup_read is started on it, it takes no
\* message from queued_messages, and basic_publish is not called on it.
C19_DroppedSessionInert ==
    [][ /\ Cardinality({ p', client' } \ { 0 }) <= 1
        /\ p' # 0 => sess'[p'].pc # "closed"
        /\ \A s \in DOMAIN sess :
               sess[s].pc = "closed" =>
                   /\ sess'[s] = sess[s]
                   /\ \A k \in DOMAIN acts : acts[k].sess = s => acts'[k] = acts[k]
                   /\ \A k \in (DOMAIN acts') \ (DOMAIN acts) : acts'[k].sess # s
                   /\ \A m \in DOMAIN msgs' :
                          msgs'[m].sess = s => (m \in DOMAIN msgs /\ msgs'[m] = msgs[m])
                   /\ \A j \in (DOMAIN published') \ (DOMAIN published) :
                          msgs'[published'[j]].sess # s
      ]_vars

\* The first Session was dropped with a setup_read of its own behind it; the
\* second is the only one the factory references and has taken a message from
\* queued_messages.
C19_Witness ==
    /\ p = 2
    /\ client = 2
    /\ sess[1].pc = "closed"
    /\ \E k \in DOMAIN acts : acts[k].sess = 1
    /\ \E m \in DOMAIN msgs : msgs[m].sess = 2

\* C20: a message leaves queued_messages in one step only, taken by a Session
\* that is Ready after that step, and never returns to it; a message not yet
\* taken is in queued_messages; and basic_publish is called at most once for
\* a message.
C20_DequeuedOnceByReadySession ==
    [][ \A m \in DOMAIN msgs' :
            /\ ( /\ m \in DOMAIN msgs => msgs[m].st = "queued"
                 /\ msgs'[m].st # "queued" ) =>
                    /\ msgs'[m].sess # 0
                    /\ sess'[msgs'[m].sess].pc = "ready"
            /\ (m \in DOMAIN msgs /\ msgs[m].st # "queued") => msgs'[m].st # "queued"
            /\ msgs'[m].st = "queued" <=> m \in Range(queued_messages')
            /\ Cardinality({ j \in DOMAIN published' : published'[j] = m }) <= 1
      ]_vars

====
